---- MODULE Spec2Model ----
(***************************************************************************)
(* A model of radiance's Vulkan rendering engine: the SwapChain life       *)
(* cycle, the per-frame submit-and-present protocol, the engine's drop     *)
(* order and the Device wrapper's release of the logical device.           *)
(*                                                                         *)
(* The driver (ash / Vulkan) is modelled by what the engine can observe:   *)
(* the result of each call, chosen nondeterministically, the number of     *)
(* live handles of each kind, and the number of queue submissions that     *)
(* have not been followed by a device_wait_idle.                           *)
(***************************************************************************)
EXTENDS Integers, Sequences, FiniteSets, TLC

\* Bounds of the model.
NumEntities == 2     \* entities of the scene
MaxImages == 2       \* largest image count the driver returns for a chain
MaxFrames == 2       \* render calls in one run
MaxRefs == 2         \* strong references to one Device wrapper
MaxHandles == 1      \* raw handles of one kind created from a Device wrapper
NumDevices == 2      \* logical devices that owned-object wrappers are made from
MaxObjects == 2      \* constructor calls of owned-object wrappers in one run

VARIABLES
    pc,         \* "start" | "failed" | "idle" | "render" | "panic" | "dropped"
    swapchain,  \* VulkanRenderingEngine.swapchain : Option<SwapChain>
    built,      \* number of SwapChains built so far (the newest one's gen)
    scene,      \* the entities: raw render data and VulkanRenderObject
    cursor,     \* render's loop: the entity whose render_object is next
    frames,     \* number of render calls started
    live,       \* driver: number of live handles of each kind
    misuse,     \* driver: a destroy of a dead handle or under a dead parent
    pending,    \* driver: queue submissions not yet followed by wait idle
    sem,        \* driver: the two semaphores, TRUE when signaled
    calls,      \* the driver calls made by the most recent step, in order
    teardown,   \* the most recent SwapChain teardown
    ro,         \* the most recent render_object call: results and return
    op,         \* the most recent step
    attempted,  \* entities whose render_object was called in this frame
    rebuilt,    \* this render call rebuilt the SwapChain
    oodFrame,   \* the render call in which a present last reported out-of-date
    loaded,     \* a scene_loaded call has returned
    overlap,    \* a queue submit was made while an earlier one was pending
    panicAt,    \* where the engine panicked ("" when it has not)
    rc,         \* the engine's Rc<Device>: its strong and its weak count
    used,       \* for each entity followed: the command buffers submitted since
                \* their recording
    devRefs,    \* Device wrapper: strong count of Rc<Device>
    devReleased,\* Device wrapper: destroy_device has been called
    devHandles, \* Device wrapper: live raw handles created through it
    ashRefs,    \* strong count of an Rc<ash::Device> made from vk_device()
    samplers,   \* live Sampler objects
    devMisuse,  \* a destroy call was issued on the released device
    objs,       \* the live Sampler / PipelineLayout objects: type, device, handle
    made,       \* driver: the handles created for wrappers, with their device
    destroys,   \* driver: the destroy calls issued by wrappers, in order
    objCount,   \* number of wrapper constructor calls so far
    objRet      \* how the most recent constructor call ended

engineVars == <<pc, swapchain, built, scene, cursor, frames, live, misuse,
                pending, sem, calls, teardown, ro, op, attempted, rebuilt,
                oodFrame, loaded, overlap, panicAt, rc, used>>
deviceVars == <<devRefs, devReleased, devHandles, ashRefs, samplers, devMisuse>>
objectVars == <<objs, made, destroys, objCount, objRet>>
vars == <<engineVars, deviceVars, objectVars>>

Entities == 1..NumEntities

(***************************************************************************)
(* The driver's handle accounting.                                         *)
(***************************************************************************)
Kinds == {"instance", "device", "surface", "debug_report_callback",
          "command_pool", "semaphore", "swapchain", "image_view",
          "render_pass", "pipeline_layout", "pipeline", "framebuffer"}

\* The handle kind a driver call creates (+1) or destroys (-1).
DriverCalls ==
    [create_instance |-> <<"instance", 1>>,
     create_surface |-> <<"surface", 1>>,
     create_device |-> <<"device", 1>>,
     create_command_pool |-> <<"command_pool", 1>>,
     create_semaphore |-> <<"semaphore", 1>>,
     create_debug_report_callback |-> <<"debug_report_callback", 1>>,
     create_swapchain |-> <<"swapchain", 1>>,
     create_image_view |-> <<"image_view", 1>>,
     create_render_pass |-> <<"render_pass", 1>>,
     create_pipeline_layout |-> <<"pipeline_layout", 1>>,
     create_graphics_pipelines |-> <<"pipeline", 1>>,
     create_framebuffer |-> <<"framebuffer", 1>>,
     destroy_framebuffer |-> <<"framebuffer", -1>>,
     destroy_pipeline |-> <<"pipeline", -1>>,
     destroy_pipeline_layout |-> <<"pipeline_layout", -1>>,
     destroy_render_pass |-> <<"render_pass", -1>>,
     destroy_image_view |-> <<"image_view", -1>>,
     destroy_swapchain |-> <<"swapchain", -1>>,
     destroy_debug_report_callback |-> <<"debug_report_callback", -1>>,
     destroy_command_pool |-> <<"command_pool", -1>>,
     destroy_semaphore |-> <<"semaphore", -1>>,
     destroy_surface |-> <<"surface", -1>>,
     destroy_device |-> <<"device", -1>>,
     destroy_instance |-> <<"instance", -1>>]

\* The handle a handle of this kind was created from.
Parent(kind) ==
    IF kind = "instance" THEN "none"
    ELSE IF kind \in {"device", "surface", "debug_report_callback"} THEN "instance"
    ELSE "device"

\* The driver's state after a sequence of calls.
RECURSIVE Account(_, _)
Account(d, cs) ==
    IF cs = <<>> THEN d
    ELSE LET c == Head(cs) IN
         IF c \notin DOMAIN DriverCalls THEN Account(d, Tail(cs))
         ELSE LET k == DriverCalls[c][1]
                  delta == DriverCalls[c][2]
                  dead == d.live[k] = 0
                  orphan == Parent(k) # "none" /\ d.live[Parent(k)] = 0
                  bad == delta < 0 /\ (dead \/ orphan)
              IN Account([live |-> [d.live EXCEPT ![k] = IF delta < 0 /\ dead THEN 0 ELSE @ + delta],
                          misuse |-> d.misuse \/ bad],
                         Tail(cs))

Repeat(c, n) == [i \in 1..n |-> c]

(***************************************************************************)
(* SwapChain                                                               *)
(***************************************************************************)
Absent == [some |-> FALSE, gen |-> 0, images |-> <<>>, image_views |-> <<>>,
           framebuffers |-> <<>>]

\* creation_helpers::create_image_views: one view per image.
create_image_views(images) == [i \in 1..Len(images) |-> images[i]]

\* creation_helpers::create_framebuffers: one framebuffer per image view.
create_framebuffers(image_views) == [i \in 1..Len(image_views) |-> image_views[i]]

\* SwapChain::new with create_framebuffers given the first image view only.
SwapChainNew_OneFramebuffer(n, gen) ==
    LET images == [i \in 1..n |-> i]
        image_views == create_image_views(images)
        framebuffers == create_framebuffers(<<image_views[1]>>)
    IN [some |-> TRUE, gen |-> gen, images |-> images,
        image_views |-> image_views, framebuffers |-> framebuffers]

\* SwapChain::new when every step succeeds; the driver returns n images.
SwapChainNew(n, gen) ==
    LET images == [i \in 1..n |-> i]
        image_views == create_image_views(images)
        framebuffers == create_framebuffers(image_views)
    IN [some |-> TRUE, gen |-> gen, images |-> images,
        image_views |-> image_views, framebuffers |-> framebuffers]

\* The steps of SwapChain::new, in order; each can fail and is then returned with `?`.
NewSteps == <<"create_swapchain", "get_swapchain_images", "create_image_views",
              "create_render_pass", "create_pipeline_layout", "create_pipeline",
              "create_framebuffers">>

\* The driver calls of one successful step of SwapChain::new.
StepCalls(step, n) ==
    CASE step = "create_swapchain" -> <<"create_swapchain">>
      [] step = "get_swapchain_images" -> <<"get_swapchain_images">>
      [] step = "create_image_views" -> Repeat("create_image_view", n)
      [] step = "create_render_pass" -> <<"create_render_pass">>
      [] step = "create_pipeline_layout" -> <<"create_pipeline_layout">>
      [] step = "create_pipeline" -> <<"create_graphics_pipelines">>
      [] step = "create_framebuffers" -> Repeat("create_framebuffer", n)

\* The driver calls of SwapChain::new that succeed when step `fail' fails
\* (fail = 0: none fails).  Nothing created before a failing step is destroyed.
RECURSIVE NewCalls(_, _, _)
NewCalls(k, n, fail) ==
    IF k > Len(NewSteps) \/ k = fail THEN <<>>
    ELSE StepCalls(NewSteps[k], n) \o NewCalls(k + 1, n, fail)

\* impl Drop for SwapChain: the destroy calls, in the order the code issues them.
SwapChainDrop(sc) ==
    Repeat("destroy_framebuffer", Len(sc.framebuffers))
    \o <<"destroy_pipeline_layout", "destroy_render_pass", "destroy_pipeline">>
    \o Repeat("destroy_image_view", Len(sc.image_views))
    \o <<"destroy_swapchain">>

NoTeardown == [cause |-> "none", inflight |-> 0, order |-> <<>>, resolved |-> TRUE]

\* Rc::downgrade(&self.device): one more weak reference.
Downgrade(r) == [r EXCEPT !.weak = @ + 1]

\* Weak::upgrade resolves while a strong reference is left.
Upgrade(r) == r.strong > 0

\* SwapChain::new with the Rc it upgraded stored in Self instead of the Weak.
SwapChainNewRefs_KeepsRc(r, ok) ==
    LET upgraded == [r EXCEPT !.strong = @ + 1]
    IN IF ok THEN [upgraded EXCEPT !.weak = @ - 1]
       ELSE [r EXCEPT !.weak = @ - 1]

\* The reference counts of the device after SwapChain::new, entered with the
\* Weak its caller made: rc_device (the upgrade of line 382) lives to the end
\* of the call; the Weak moves into Self, or is dropped when the call fails.
SwapChainNewRefs(r, ok) ==
    LET upgraded == [r EXCEPT !.strong = @ + 1]
        returned == [upgraded EXCEPT !.strong = @ - 1]
    IN IF ok THEN returned ELSE [returned EXCEPT !.weak = @ - 1]

\* The reference counts after impl Drop for SwapChain: rc_device (line 429)
\* lives to the end of drop, then the Weak field is dropped.
SwapChainDropRefs(r) ==
    LET upgraded == [r EXCEPT !.strong = @ + 1]
        returned == [upgraded EXCEPT !.strong = @ - 1]
    IN [returned EXCEPT !.weak = @ - 1]

(***************************************************************************)
(* Command buffers and the scene                                           *)
(***************************************************************************)
NoGpu == [some |-> FALSE, cbs |-> <<>>]

\* The usage flags every command buffer is begun with (lines 224-226).
BeginFlags == {"ONE_TIME_SUBMIT"}

\* create_command_buffers with command_buffer_count(1).
CreateCommandBuffers_Single(sc) ==
    [i \in 1..1 |-> [gen |-> sc.gen, fb |-> sc.framebuffers[i]]]

\* create_command_buffers: one primary command buffer per framebuffer of the
\* SwapChain, each recorded against that framebuffer.
CreateCommandBuffers(sc) ==
    [i \in 1..Len(sc.framebuffers) |-> [gen |-> sc.gen, fb |-> sc.framebuffers[i]]]

\* VulkanRenderObject::new: uploaded buffers plus the initial command buffers.
VulkanRenderObjectNew(sc) == [some |-> TRUE, cbs |-> CreateCommandBuffers(sc)]

\* VulkanRenderObject::recreate_command_buffers: the set is recorded again.
RecreateCommandBuffers(obj, sc) == [obj EXCEPT !.cbs = CreateCommandBuffers(sc)]

Drawables(s) == {e \in Entities : s[e].gpu.some}

\* render's loop: the first entity from c on that has a VulkanRenderObject.
NextDrawable(s, c) ==
    IF \E e \in Drawables(s) : e >= c
    THEN CHOOSE e \in Drawables(s) : e >= c /\ \A x \in Drawables(s) : x >= c => e <= x
    ELSE NumEntities + 1

NoSubmit == [wait |-> "none", cb |-> 0, signal |-> "none"]
NoPresent == [wait |-> "none", image |-> 0]
NoCall == [acquire |-> "none", image |-> 0, submit |-> "none", present |-> "none",
           ret |-> "none", entity |-> 0, signal |-> "none",
           submitted |-> NoSubmit, presented |-> NoPresent]

\* The semaphore acquire_next_image is given to signal (line 297).
AcquireSignal == "image_available"

\* A submit that always takes the first command buffer of the set.
SubmitInfo_FirstBuffer(image) ==
    [wait |-> "image_available", cb |-> 1, signal |-> "render_finished"]

\* The vk::SubmitInfo of lines 302-308 for the acquired image index.
SubmitInfo(image) ==
    [wait |-> "image_available", cb |-> image, signal |-> "render_finished"]

\* The vk::PresentInfoKHR of lines 312-317 for the acquired image index.
PresentInfo(image) ==
    [wait |-> "render_finished", image |-> image]

(***************************************************************************)
(* render_object's match on the result of queue_present                    *)
(***************************************************************************)
PresentResults == {"ok", "suboptimal", "out_of_date", "error"}

\* The match without its ERROR_OUT_OF_DATE_KHR arm: out-of-date falls to Err(x).
PresentMatch_NoOutOfDate(res) ==
    CASE res = "ok" -> "keep"
      [] res = "suboptimal" -> "discard"
      [] OTHER -> "return_err"

\* The match with Ok(_) => (): a suboptimal present keeps the SwapChain.
PresentMatch_SuboptimalKept(res) ==
    CASE res \in {"ok", "suboptimal"} -> "keep"
      [] res = "out_of_date" -> "discard"
      [] OTHER -> "return_err"

PresentMatch(res) ==
    CASE res = "ok" -> "keep"                 \* Ok(false) => ()
      [] res = "suboptimal" -> "discard"      \* Ok(true) => self.swapchain = None
      [] res = "out_of_date" -> "discard"     \* Err(ERROR_OUT_OF_DATE_KHR) => None
      [] OTHER -> "return_err"                \* Err(x) => return Err(x)

(***************************************************************************)
(* render_object (one submit-and-present cycle) as a function of the       *)
(* driver's results.                                                       *)
(***************************************************************************)
\* The results the driver can give to one render_object call on SwapChain sc
\* with command-buffer set cbs.  `waited' says whether a failed present still
\* executed its wait on render-finished.
Outcomes(sc, cbs) ==
    {o \in [acquire : {"ok", "error"}, image : 0..Len(sc.images),
            submit : {"ok", "error", "none"}, present : PresentResults \cup {"none"},
            waited : BOOLEAN] :
        /\ (o.acquire = "error") = (o.image = 0)
        /\ (o.submit = "none") = (o.acquire = "error" \/ o.image > Len(cbs))
        /\ (o.present = "none") = (o.submit # "ok")
        /\ (o.present # "error" => o.waited = (o.present # "none"))}

\* What render_object returns: "ok" for Ok(()), "err" for Err, "panic" for an unwrap
\* of None / Err or an index out of bounds.
RenderObjectRet(sc, o) ==
    IF ~sc.some \/ o.acquire = "error" \/ o.submit = "none" THEN "panic"
    ELSE IF o.submit = "error" THEN "err"
    ELSE IF PresentMatch(o.present) = "return_err" THEN "err"
    ELSE "ok"

\* The driver calls render_object makes, in order.
RenderObjectCalls(sc, o) ==
    IF ~sc.some THEN <<>>
    ELSE <<"acquire_next_image">>
         \o (IF o.submit = "none" THEN <<>> ELSE <<"queue_submit">>)
         \o (IF o.submit # "ok" THEN <<>>
             ELSE <<"queue_present">>
                  \o (IF PresentMatch(o.present) = "discard" THEN SwapChainDrop(sc) ELSE <<>>)
                  \o (IF PresentMatch(o.present) = "return_err" THEN <<>>
                      ELSE <<"device_wait_idle">>))

\* Where render_object panics.
RenderObjectPanic(sc, o) ==
    IF ~sc.some THEN "render_object:291"
    ELSE IF o.acquire = "error" THEN "render_object:301"
    ELSE "render_object:305"

NoOutcome == [acquire |-> "error", image |-> 0, submit |-> "none", present |-> "none",
              waited |-> FALSE]

(***************************************************************************)
(* The engine                                                              *)
(***************************************************************************)
\* The raw handles Device's factory methods return.
DevKinds == {"command_pool", "descriptor_pool", "descriptor_set_layout", "image_view"}

InitLive(n) ==
    [k \in Kinds |-> CASE k = "semaphore" -> 2
                       [] k \in {"image_view", "framebuffer"} -> n
                       [] OTHER -> 1]

DeviceIdle ==
    /\ devRefs = 0 /\ devReleased = FALSE /\ devHandles = [k \in DevKinds |-> 0]
    /\ ashRefs = 0 /\ samplers = 0 /\ devMisuse = FALSE

\* The submissions of no entity are followed.
NoneFollowed == [e \in {} |-> {}]

\* No Sampler or PipelineLayout has been constructed.
ObjectsIdle ==
    /\ objs = {} /\ made = {} /\ destroys = <<>> /\ objCount = 0 /\ objRet = "none"

\* VulkanRenderingEngine::new succeeded: the SwapChain is present, nothing is
\* submitted, the scene has raw render data on some entities and no GPU state.
InitEngine ==
    /\ pc = "idle"
    /\ \E n \in 1..MaxImages :
          /\ swapchain = SwapChainNew(n, 1)
          /\ live = InitLive(n)
    /\ built = 1
    /\ scene \in [Entities -> [data : BOOLEAN, gpu : {NoGpu}]]
    /\ cursor = 0
    /\ frames = 0
    /\ misuse = FALSE
    /\ pending = 0
    /\ sem = [image_available |-> FALSE, render_finished |-> FALSE]
    /\ calls = <<>>
    /\ teardown = NoTeardown
    /\ ro = NoCall
    /\ op = "new"
    /\ attempted = {}
    /\ rebuilt = FALSE
    /\ oodFrame = 0
    /\ loaded = FALSE
    /\ overlap = FALSE
    /\ panicAt = ""
    /\ rc = SwapChainNewRefs(Downgrade([strong |-> 1, weak |-> 0]), TRUE)
    /\ DeviceIdle
    /\ ObjectsIdle

Init ==
    /\ InitEngine
    /\ used = NoneFollowed

\* scene_loaded: a VulkanRenderObject for every entity with a RenderObject.
\* failAt is the entity at which a driver call fails (0: none); the unwrap
\* panics there, as it does at the first such entity when the SwapChain is absent.
SceneLoaded ==
    /\ pc = "idle"
    /\ \E failAt \in 0..NumEntities :
          LET withData == {e \in Entities : scene[e].data}
              first == IF withData = {} THEN 0
                       ELSE CHOOSE e \in withData : \A x \in withData : e <= x
              stop == IF swapchain.some THEN failAt ELSE first
              done == {e \in withData : stop = 0 \/ e < stop}
          IN /\ failAt = 0 \/ (failAt \in withData /\ swapchain.some)
             /\ scene' = [e \in Entities |->
                            IF e \in done
                            THEN [scene[e] EXCEPT !.gpu = VulkanRenderObjectNew(swapchain)]
                            ELSE scene[e]]
             /\ calls' = Repeat("allocate_command_buffers", Cardinality(done))
             /\ used' = [e \in DOMAIN used |-> IF e \in done THEN {} ELSE used[e]]
             /\ pc' = IF stop = 0 THEN "idle" ELSE "panic"
             /\ panicAt' = IF stop = 0 THEN panicAt
                           ELSE IF swapchain.some THEN "scene_loaded:155"
                           ELSE "create_command_buffers:211"
    /\ op' = "scene_loaded"
    /\ loaded' = (loaded \/ pc' = "idle")
    /\ UNCHANGED <<swapchain, built, cursor, frames, live, misuse, pending, sem,
                   teardown, ro, attempted, rebuilt, oodFrame, overlap, rc>>
    /\ UNCHANGED <<deviceVars, objectVars>>

\* render after a rebuild that leaves every command-buffer set as it was.
Rerecorded_Skipped(s, redo, sc) == s

\* The for_each of render (lines 130-134) after a rebuild: every
\* VulkanRenderObject it reaches records its command buffers again, against
\* the new SwapChain.
Rerecorded(s, redo, sc) ==
    [e \in Entities |->
        IF e \in redo THEN [s[e] EXCEPT !.gpu = RecreateCommandBuffers(@, sc)]
        ELSE s[e]]

\* render, up to its loop: when the SwapChain is absent, recreate_swapchain
\* (wait idle, drop, build) and recreate_command_buffers for every drawable.
\* n is the image count of the new chain, fail the step of the build that
\* fails (0: none; Len(NewSteps) + 1: get_capabilities), recFail the
\* drawable whose re-recording fails (0: none); both failures are unwrapped.
RenderBegin ==
    /\ pc = "idle"
    /\ frames < MaxFrames
    /\ frames' = frames + 1
    /\ op' = "render"
    /\ attempted' = {}
    /\ ro' = NoCall
    /\ UNCHANGED <<sem, overlap, oodFrame, loaded>>
    /\ UNCHANGED <<deviceVars, objectVars>>
    /\ IF swapchain.some
       THEN /\ pc' = "render"
            /\ cursor' = NextDrawable(scene, 1)
            /\ rebuilt' = FALSE
            /\ calls' = <<>>
            /\ UNCHANGED <<swapchain, built, scene, live, misuse, pending, teardown,
                           panicAt, rc, used>>
       ELSE \E n \in 1..MaxImages, fail \in 0..(Len(NewSteps) + 1), recFail \in 0..NumEntities :
            LET newsc == SwapChainNew(n, built + 1)
                dropped == IF swapchain.some THEN SwapChainDrop(swapchain) ELSE <<>>
                cs == <<"device_wait_idle">> \o dropped
                      \o <<"get_physical_device_surface_capabilities">>
                      \o (IF fail = Len(NewSteps) + 1 THEN <<>> ELSE NewCalls(1, n, fail))
                d == Account([live |-> live, misuse |-> misuse], cs)
                redo == {e \in Drawables(scene) : recFail = 0 \/ e < recFail}
                rc0 == IF swapchain.some THEN SwapChainDropRefs(rc) ELSE rc
            IN /\ recFail = 0 \/ (recFail \in Drawables(scene) /\ fail = 0)
               /\ rc' = IF fail = Len(NewSteps) + 1 THEN rc0
                        ELSE SwapChainNewRefs(Downgrade(rc0), fail = 0)
               /\ calls' = cs
               /\ live' = d.live
               /\ misuse' = d.misuse
               /\ pending' = 0
               /\ teardown' = IF swapchain.some
                              THEN [cause |-> "recreate", inflight |-> 0, order |-> dropped,
                                    resolved |-> Upgrade(rc)]
                              ELSE teardown
               /\ swapchain' = IF fail = 0 THEN newsc ELSE Absent
               /\ built' = IF fail = 0 THEN built + 1 ELSE built
               /\ scene' = IF fail # 0 THEN scene ELSE Rerecorded(scene, redo, newsc)
               /\ used' = IF fail # 0 THEN used
                          ELSE [e \in DOMAIN used |-> IF e \in redo THEN {} ELSE used[e]]
               /\ rebuilt' = (fail = 0)
               /\ pc' = IF fail = 0 /\ recFail = 0 THEN "render" ELSE "panic"
               /\ panicAt' = IF fail # 0 THEN "render:129"
                             ELSE IF recFail # 0 THEN "render:134" ELSE panicAt
               /\ cursor' = IF fail = 0 /\ recFail = 0 THEN NextDrawable(scene', 1) ELSE cursor

\* render's loop body for the drawable at the cursor: one render_object call;
\* Err is printed, Ok is ignored, and the loop goes to the next drawable.
RenderObject ==
    /\ pc = "render"
    /\ cursor <= NumEntities
    /\ \E o \in (IF swapchain.some THEN Outcomes(swapchain, scene[cursor].gpu.cbs)
                 ELSE {NoOutcome}) :
          LET ret == RenderObjectRet(swapchain, o)
              cs == RenderObjectCalls(swapchain, o)
              d == Account([live |-> live, misuse |-> misuse], cs)
              discard == o.submit = "ok" /\ PresentMatch(o.present) = "discard"
          IN /\ calls' = cs
             /\ live' = d.live
             /\ misuse' = d.misuse
             /\ ro' = [acquire |-> IF swapchain.some THEN o.acquire ELSE "none",
                       image |-> o.image, submit |-> o.submit, present |-> o.present,
                       ret |-> ret, entity |-> cursor,
                       signal |-> IF swapchain.some THEN AcquireSignal ELSE "none",
                       submitted |-> IF o.submit = "none" THEN NoSubmit
                                     ELSE SubmitInfo(o.image),
                       presented |-> IF o.submit = "ok" THEN PresentInfo(o.image)
                                     ELSE NoPresent]
             /\ swapchain' = IF discard THEN Absent ELSE swapchain
             /\ teardown' = IF discard
                            THEN [cause |-> "present", inflight |-> pending + 1,
                                  order |-> SwapChainDrop(swapchain),
                                  resolved |-> Upgrade(rc)]
                            ELSE teardown
             /\ rc' = IF discard THEN SwapChainDropRefs(rc) ELSE rc
             /\ overlap' = (overlap \/ (o.submit = "ok" /\ pending > 0))
             /\ used' = IF o.submit = "ok" /\ cursor \in DOMAIN used
                        THEN [used EXCEPT ![cursor] = @ \cup {SubmitInfo(o.image).cb}]
                        ELSE used
             /\ pending' = IF ret = "ok" THEN 0
                           ELSE IF o.submit = "ok" THEN pending + 1 ELSE pending
             /\ LET si == SubmitInfo(o.image)
                    pi == PresentInfo(o.image)
                    acquired == IF swapchain.some /\ o.acquire = "ok"
                                THEN [sem EXCEPT ![AcquireSignal] = TRUE] ELSE sem
                    submitted == IF o.submit = "ok"
                                 THEN [acquired EXCEPT ![si.wait] = FALSE, ![si.signal] = TRUE]
                                 ELSE acquired
                IN sem' = IF o.submit = "ok" /\ o.waited
                          THEN [submitted EXCEPT ![pi.wait] = FALSE] ELSE submitted
             /\ oodFrame' = IF o.present = "out_of_date" THEN frames ELSE oodFrame
             /\ pc' = IF ret = "panic" THEN "panic" ELSE "render"
             /\ panicAt' = IF ret = "panic" THEN RenderObjectPanic(swapchain, o) ELSE panicAt
             /\ cursor' = IF ret = "panic" THEN cursor ELSE NextDrawable(scene, cursor + 1)
    /\ attempted' = attempted \cup {cursor}
    /\ op' = "render_object"
    /\ UNCHANGED <<built, scene, frames, rebuilt, loaded>>
    /\ UNCHANGED <<deviceVars, objectVars>>

\* render returns once its loop has passed the last entity.
RenderEnd ==
    /\ pc = "render"
    /\ cursor > NumEntities
    /\ pc' = "idle"
    /\ op' = "render_end"
    /\ cursor' = 0
    /\ calls' = <<>>
    /\ UNCHANGED <<swapchain, built, scene, frames, live, misuse, pending, sem,
                   teardown, ro, attempted, rebuilt, oodFrame, loaded, overlap, panicAt,
                   rc, used>>
    /\ UNCHANGED <<deviceVars, objectVars>>

\* impl Drop for VulkanRenderingEngine, run when the engine goes out of scope
\* or while a panic unwinds.  The Rc<ash::Device> field is released after the
\* body; ash::Device has no Drop, so no destroy_device call is made.
EngineDropCalls(sc) ==
    <<"device_wait_idle">>
    \o (IF sc.some THEN SwapChainDrop(sc) ELSE <<>>)
    \o <<"destroy_debug_report_callback", "destroy_command_pool",
         "destroy_semaphore", "destroy_semaphore",
         "destroy_surface", "destroy_instance">>

\* Drop with no drop(self.swapchain.take()) in its body: the fields are
\* released in declaration order, device (line 21) before swapchain (line 26).
EngineDropReleases_FieldOrder == <<"device", "swapchain">>

\* The order in which the engine's drop releases its SwapChain (line 344, in
\* the body) and its Rc<Device> (a field, released after the body).
EngineDropReleases == <<"swapchain", "device">>

\* The device's reference counts when the engine's drop reaches its SwapChain.
RcAtSwapChainDrop(r) ==
    IF EngineDropReleases[1] = "device" THEN [r EXCEPT !.strong = @ - 1] ELSE r

EngineDrop ==
    /\ pc \in {"idle", "panic"}
    /\ LET cs == EngineDropCalls(swapchain)
           d == Account([live |-> live, misuse |-> misuse], cs)
       IN /\ calls' = cs
          /\ live' = d.live
          /\ misuse' = d.misuse
    /\ LET at == RcAtSwapChainDrop(rc)
           resolved == Upgrade(at)
           after == IF swapchain.some /\ resolved THEN SwapChainDropRefs(rc) ELSE rc
       IN /\ teardown' = IF swapchain.some
                         THEN [cause |-> "drop", inflight |-> 0,
                               order |-> IF resolved THEN SwapChainDrop(swapchain) ELSE <<>>,
                               resolved |-> resolved]
                         ELSE teardown
          /\ panicAt' = IF swapchain.some /\ ~resolved THEN "swapchain_drop:429" ELSE panicAt
          /\ rc' = [after EXCEPT !.strong = @ - 1]
    /\ swapchain' = Absent
    /\ pending' = 0
    /\ pc' = "dropped"
    /\ op' = "drop"
    /\ UNCHANGED <<built, scene, cursor, frames, sem, ro, attempted, rebuilt,
                   oodFrame, loaded, overlap, used>>
    /\ UNCHANGED <<deviceVars, objectVars>>

Next ==
    \/ SceneLoaded
    \/ RenderBegin
    \/ RenderObject
    \/ RenderEnd
    \/ EngineDrop

Spec == Init /\ [][Next]_vars

\* The engine's life with the submissions of every entity followed.
InitSubmits ==
    /\ InitEngine
    /\ used = [e \in Entities |-> {}]

SpecSubmits == InitSubmits /\ [][Next]_vars

(***************************************************************************)
(* VulkanRenderingEngine::new, followed by the engine's life.              *)
(***************************************************************************)
\* The steps of new, in order; each one is left with `?' when it fails.
EngineNewSteps ==
    <<"entry", "create_instance", "get_physical_device", "create_surface",
      "get_graphics_queue_family_index", "create_device", "get_surface_format",
      "get_present_mode", "get_capabilities", "create_command_pool", "swapchain",
      "create_semaphore", "create_semaphore", "create_debug_report_callback">>

\* The driver calls of one successful step of new; the SwapChain step makes
\* the calls of SwapChain::new up to its failing step sf (0: none).
EngineNewStepCalls(step, n, sf) ==
    IF step = "swapchain" THEN NewCalls(1, n, sf)
    ELSE IF step \in DOMAIN DriverCalls THEN <<step>>
    ELSE <<>>

\* The driver calls of new when its step f fails (0: none).
RECURSIVE EngineNewCalls(_, _, _, _)
EngineNewCalls(k, n, f, sf) ==
    IF k > Len(EngineNewSteps) THEN <<>>
    ELSE IF k = f
         THEN (IF EngineNewSteps[k] = "swapchain" THEN NewCalls(1, n, sf) ELSE <<>>)
    ELSE EngineNewStepCalls(EngineNewSteps[k], n, 0) \o EngineNewCalls(k + 1, n, f, sf)

\* new with the device creation unwrapped, as Device::new does (device.rs:27).
EngineNewResult_DeviceUnwrap(f) ==
    IF f = 0 THEN "ok"
    ELSE IF EngineNewSteps[f] = "create_device" THEN "panic" ELSE "err"

\* What new returns when its step f fails (0: none): every step, SwapChain::new
\* included, is followed by `?'.
EngineNewResult(f) ==
    IF f = 0 THEN "ok" ELSE "err"

InitNew ==
    /\ pc = "start"
    /\ swapchain = Absent
    /\ live = [k \in Kinds |-> 0]
    /\ built = 0
    /\ scene \in [Entities -> [data : BOOLEAN, gpu : {NoGpu}]]
    /\ cursor = 0
    /\ frames = 0
    /\ misuse = FALSE
    /\ pending = 0
    /\ sem = [image_available |-> FALSE, render_finished |-> FALSE]
    /\ calls = <<>>
    /\ teardown = NoTeardown
    /\ ro = NoCall
    /\ op = "none"
    /\ attempted = {}
    /\ rebuilt = FALSE
    /\ oodFrame = 0
    /\ loaded = FALSE
    /\ overlap = FALSE
    /\ used = NoneFollowed
    /\ panicAt = ""
    /\ rc = [strong |-> 0, weak |-> 0]
    /\ DeviceIdle
    /\ ObjectsIdle

\* VulkanRenderingEngine::new.  n is the image count of the chain, f the step
\* that fails (0: none) and sf the step of SwapChain::new that fails when f is
\* the SwapChain step.  On failure no engine exists: the locals are dropped,
\* raw handles stay as they are, and no drop of the engine runs.
EngineNew ==
    /\ pc = "start"
    /\ \E n \in 1..MaxImages, f \in 0..Len(EngineNewSteps), sf \in 0..Len(NewSteps) :
          LET cs == EngineNewCalls(1, n, f, sf)
              d == Account([live |-> live, misuse |-> misuse], cs)
              res == EngineNewResult(f)
          IN /\ (sf # 0) = (f # 0 /\ EngineNewSteps[f] = "swapchain")
             /\ calls' = cs
             /\ live' = d.live
             /\ misuse' = d.misuse
             /\ swapchain' = IF res = "ok" THEN SwapChainNew(n, 1) ELSE Absent
             /\ built' = IF res = "ok" THEN 1 ELSE 0
             /\ rc' = IF res = "ok"
                      THEN SwapChainNewRefs(Downgrade([strong |-> 1, weak |-> 0]), TRUE)
                      ELSE rc
             /\ pc' = CASE res = "ok" -> "idle"
                        [] res = "err" -> "failed"
                        [] OTHER -> "panic"
             /\ panicAt' = IF res = "panic" THEN "new" ELSE panicAt
    /\ op' = "new"
    /\ UNCHANGED <<scene, cursor, frames, pending, sem, teardown, ro, attempted,
                   rebuilt, oodFrame, loaded, overlap, used>>
    /\ UNCHANGED <<deviceVars, objectVars>>

NextNew ==
    \/ EngineNew
    \/ Next

SpecNew == InitNew /\ [][NextNew]_vars

(***************************************************************************)
(* The Device wrapper (device.rs), with the objects made from it.          *)
(***************************************************************************)
\* An engine as constructed, left alone while the Device wrapper or the owned
\* objects are exercised.
EngineBuilt ==
    /\ pc = "idle"
    /\ swapchain = SwapChainNew(1, 1)
    /\ live = InitLive(1)
    /\ built = 1
    /\ scene = [e \in Entities |-> [data |-> FALSE, gpu |-> NoGpu]]
    /\ cursor = 0
    /\ frames = 0
    /\ misuse = FALSE
    /\ pending = 0
    /\ sem = [image_available |-> FALSE, render_finished |-> FALSE]
    /\ calls = <<>>
    /\ teardown = NoTeardown
    /\ ro = NoCall
    /\ op = "new"
    /\ attempted = {}
    /\ rebuilt = FALSE
    /\ oodFrame = 0
    /\ loaded = FALSE
    /\ overlap = FALSE
    /\ used = NoneFollowed
    /\ panicAt = ""
    /\ rc = [strong |-> 1, weak |-> 1]

InitDevice ==
    /\ EngineBuilt
    /\ ObjectsIdle
    \* Rc::new(Device::new(..)): one strong reference, nothing created yet.
    /\ devRefs = 1
    /\ devReleased = FALSE
    /\ devHandles = [k \in DevKinds |-> 0]
    /\ ashRefs = 0
    /\ samplers = 0
    /\ devMisuse = FALSE

\* Rc::clone of the Device wrapper.
DeviceClone ==
    /\ devRefs >= 1 /\ devRefs < MaxRefs
    /\ devRefs' = devRefs + 1
    /\ UNCHANGED <<devReleased, devHandles, ashRefs, samplers, devMisuse>>
    /\ UNCHANGED <<engineVars, objectVars>>

\* Drop of one Rc<Device>; the last one runs impl Drop for Device, which
\* calls destroy_device whatever was created from the device.
DeviceDropRef ==
    /\ devRefs >= 1
    /\ devRefs' = devRefs - 1
    /\ devReleased' = (devRefs = 1)
    /\ UNCHANGED <<devHandles, ashRefs, samplers, devMisuse>>
    /\ UNCHANGED <<engineVars, objectVars>>

\* create_command_pool, create_descriptor_pool, create_descriptor_set_layout,
\* create_image_view: the raw handle is returned to the caller.
DeviceCreate ==
    /\ devRefs >= 1
    /\ \E k \in DevKinds :
          /\ devHandles[k] < MaxHandles
          /\ devHandles' = [devHandles EXCEPT ![k] = @ + 1]
    /\ UNCHANGED <<devRefs, devReleased, ashRefs, samplers, devMisuse>>
    /\ UNCHANGED <<engineVars, objectVars>>

\* destroy_descriptor_pool, destroy_descriptor_set_layout, destroy_image_view,
\* or vk_device().destroy_command_pool: all need a reference to the Device.
DeviceDestroy ==
    /\ devRefs >= 1
    /\ \E k \in DevKinds :
          /\ devHandles[k] > 0
          /\ devHandles' = [devHandles EXCEPT ![k] = @ - 1]
    /\ UNCHANGED <<devRefs, devReleased, ashRefs, samplers, devMisuse>>
    /\ UNCHANGED <<engineVars, objectVars>>

\* Rc::new(device.vk_device().clone()): the Rc<ash::Device> that Sampler::new
\* and PipelineLayout::new take; it is no reference to the Device wrapper.
VkDeviceShare ==
    /\ devRefs >= 1
    /\ ashRefs = 0
    /\ ashRefs' = 1
    /\ UNCHANGED <<devRefs, devReleased, devHandles, samplers, devMisuse>>
    /\ UNCHANGED <<engineVars, objectVars>>

\* Sampler::new: create_sampler, and a clone of the Rc<ash::Device>.
SamplerNew ==
    /\ ashRefs >= 1
    /\ ~devReleased
    /\ samplers < MaxHandles
    /\ samplers' = samplers + 1
    /\ ashRefs' = ashRefs + 1
    /\ UNCHANGED <<devRefs, devReleased, devHandles, devMisuse>>
    /\ UNCHANGED <<engineVars, objectVars>>

\* impl Drop for Sampler: destroy_sampler on its device, then the Rc is released.
SamplerDrop ==
    /\ samplers >= 1
    /\ samplers' = samplers - 1
    /\ ashRefs' = ashRefs - 1
    /\ devMisuse' = (devMisuse \/ devReleased)
    /\ UNCHANGED <<devRefs, devReleased, devHandles>>
    /\ UNCHANGED <<engineVars, objectVars>>

\* Drop of the caller's own Rc<ash::Device>; ash::Device has no Drop.
AshDropRef ==
    /\ ashRefs > samplers
    /\ ashRefs' = ashRefs - 1
    /\ UNCHANGED <<devRefs, devReleased, devHandles, samplers, devMisuse>>
    /\ UNCHANGED <<engineVars, objectVars>>

NextDevice ==
    \/ DeviceClone
    \/ DeviceDropRef
    \/ DeviceCreate
    \/ DeviceDestroy
    \/ VkDeviceShare
    \/ SamplerNew
    \/ SamplerDrop
    \/ AshDropRef

SpecDevice == InitDevice /\ [][NextDevice]_vars

(***************************************************************************)
(* The owned-object wrappers: Sampler (sampler.rs) and PipelineLayout      *)
(* (pipeline_layout.rs), each made from some Rc<ash::Device>.              *)
(***************************************************************************)
Devices == 1..NumDevices

\* The wrapper types, with the driver call that creates and the one that
\* destroys their handle, and how a failed creation ends: Sampler::new returns
\* the error (`?', sampler.rs:30), PipelineLayout::new unwraps it
\* (pipeline_layout.rs:12).
Wrappers ==
    [sampler |-> [create |-> "create_sampler", destroy |-> "destroy_sampler",
                  onError |-> "err"],
     pipeline_layout |-> [create |-> "create_pipeline_layout",
                          destroy |-> "destroy_pipeline_layout",
                          onError |-> "panic"]]

\* A drop that issues no driver call.
WrapperDropCalls_None(o) == <<>>

\* impl Drop for Sampler / PipelineLayout: one destroy call for the stored
\* handle, on the stored device.
WrapperDropCalls(o) ==
    <<[call |-> Wrappers[o.type].destroy, dev |-> o.dev, h |-> o.h]>>

InitObjects ==
    /\ EngineBuilt
    /\ DeviceIdle
    /\ ObjectsIdle

\* Sampler::new / PipelineLayout::new on device dev; ok is the driver's
\* result.  On success the wrapper stores device.clone() and the handle; on
\* failure no wrapper exists.
WrapperNew ==
    /\ objCount < MaxObjects
    /\ \E type \in DOMAIN Wrappers, dev \in Devices, ok \in BOOLEAN :
          LET h == objCount + 1
          IN /\ made' = IF ok THEN made \cup {[call |-> Wrappers[type].create,
                                                dev |-> dev, h |-> h]}
                        ELSE made
             /\ objs' = IF ok THEN objs \cup {[type |-> type, dev |-> dev, h |-> h]}
                        ELSE objs
             /\ objRet' = IF ok THEN "ok" ELSE Wrappers[type].onError
    /\ objCount' = objCount + 1
    /\ UNCHANGED destroys
    /\ UNCHANGED <<engineVars, deviceVars>>

\* Drop of one wrapper (by its owner, or while a panic unwinds).
WrapperDrop ==
    /\ \E o \in objs :
          /\ destroys' = destroys \o WrapperDropCalls(o)
          /\ objs' = objs \ {o}
    /\ UNCHANGED <<made, objCount, objRet>>
    /\ UNCHANGED <<engineVars, deviceVars>>

NextObjects ==
    \/ WrapperNew
    \/ WrapperDrop

SpecObjects == InitObjects /\ [][NextObjects]_vars

(***************************************************************************)
(* The claims                                                              *)
(***************************************************************************)

\* C1: whenever a SwapChain is torn down, the engine has waited for GPU idle
\* after the most recent queue submission and before the first destroy call,
\* so no submission is in flight at that destroy call.
C1_TeardownAfterIdle ==
    teardown.cause # "none" => teardown.inflight = 0

\* The order of destroy calls the specification documents for a teardown.
DocumentedOrder(nf, nv) ==
    Repeat("destroy_framebuffer", nf)
    \o <<"destroy_pipeline", "destroy_pipeline_layout", "destroy_render_pass">>
    \o Repeat("destroy_image_view", nv)
    \o <<"destroy_swapchain">>

\* C2: every SwapChain teardown destroys all framebuffers, then the pipeline,
\* then the pipeline layout, then the render pass, then all image views, then
\* the chain handle.
C2_TeardownOrder ==
    teardown.cause # "none" =>
        \E nf \in 0..Len(teardown.order), nv \in 0..Len(teardown.order) :
            teardown.order = DocumentedOrder(nf, nv)

\* C3: a failure of one drawable's submit-and-present step never panics, and
\* when render returns render_object has been called for every drawable.
C3_FailureSkipped ==
    /\ panicAt \notin {"render_object:291", "render_object:301", "render_object:305"}
    /\ (op = "render_end" => attempted = Drawables(scene))

\* Every command buffer of every drawable is recorded against the framebuffers
\* of the SwapChain that is present.
AllFresh ==
    \A e \in Drawables(scene) :
        /\ Len(scene[e].gpu.cbs) = Len(swapchain.framebuffers)
        /\ \A i \in DOMAIN scene[e].gpu.cbs :
              /\ scene[e].gpu.cbs[i].gen = swapchain.gen
              /\ scene[e].gpu.cbs[i].fb = swapchain.framebuffers[i]

\* C4: when a present of render call K reported out-of-date, the SwapChain is
\* absent when that call has returned; in render call K+1 the SwapChain is
\* present, and newly built, before the first submit-and-present, and as long
\* as it is present in that call every drawable's command buffers are recorded
\* against its framebuffers.
C4_OutOfDateRebuild ==
    /\ (pc = "idle" /\ oodFrame > 0 /\ oodFrame = frames => ~swapchain.some)
    /\ (pc = "render" /\ oodFrame > 0 /\ oodFrame = frames - 1 =>
            /\ rebuilt
            /\ (attempted = {} => swapchain.some /\ swapchain.gen = built)
            /\ (swapchain.some => AllFresh))

C4_Witness ==
    /\ pc = "render" /\ oodFrame > 0 /\ oodFrame = frames - 1
    /\ attempted = {} /\ swapchain.some /\ swapchain.gen > 1
    /\ Cardinality(Drawables(scene)) >= 2

\* C5: when the engine has been dropped no driver handle it created is live,
\* no destroy call was made on a dead handle or under a dead parent, and the
\* logical device was destroyed before the instance.
C5_DropReleasesAll ==
    pc = "dropped" =>
        /\ \A k \in Kinds : live[k] = 0
        /\ ~misuse
        /\ \E i, j \in DOMAIN calls :
              i < j /\ calls[i] = "destroy_device" /\ calls[j] = "destroy_instance"

\* C6: every render_object call that submitted has waited for GPU idle when it
\* returns, and no queue submission is made while an earlier one is pending.
C6_OneFrameInFlight ==
    /\ (op = "render_object" /\ ro.submit = "ok" => pending = 0)
    /\ ~overlap

\* C7: every SwapChain that exists has as many framebuffers as image views and
\* as many image views as images.
C7_CountsAgree ==
    swapchain.some =>
        /\ Len(swapchain.framebuffers) = Len(swapchain.image_views)
        /\ Len(swapchain.image_views) = Len(swapchain.images)

C7_Witness ==
    /\ swapchain.some /\ rebuilt /\ swapchain.gen > 1
    /\ Len(swapchain.images) >= 2
    /\ teardown.cause = "present" /\ Len(teardown.order) < 4 + 2 * Len(swapchain.images)

\* C8: once scene_loaded has returned, in every render call each entity with
\* raw render data, and no other, has one command-buffer set; the SwapChain is
\* present when the loop of render starts, and each set has as many command
\* buffers as the present SwapChain has framebuffers.
C8_OneSetPerDrawable ==
    loaded /\ pc = "render" =>
        /\ Drawables(scene) = {e \in Entities : scene[e].data}
        /\ (attempted = {} => swapchain.some)
        /\ (swapchain.some =>
               \A e \in Drawables(scene) :
                   Len(scene[e].gpu.cbs) = Len(swapchain.framebuffers))

C8_Witness ==
    /\ loaded /\ pc = "render" /\ attempted = {} /\ op = "render"
    /\ Cardinality(Drawables(scene)) >= 2
    /\ swapchain.some /\ Len(swapchain.framebuffers) >= 2

\* C9: after a render_object call that found the SwapChain present, the
\* SwapChain is absent if and only if present reported suboptimal or
\* out-of-date; the call then returned Ok, as it did after a normal present,
\* which leaves the SwapChain present; any other present error is returned
\* as Err with the SwapChain left present.
C9_DiscardIffStale ==
    op = "render_object" /\ ro.acquire # "none" =>
        /\ (~swapchain.some) = (ro.present \in {"suboptimal", "out_of_date"})
        /\ (ro.present \in {"suboptimal", "out_of_date", "ok"} => ro.ret = "ok")
        /\ (ro.present = "error" => ro.ret = "err")

C9_Witness ==
    /\ op = "render_object" /\ ro.present = "suboptimal"
    /\ ro.ret = "ok" /\ ~swapchain.some

\* C10: the logical device is released only when no handle created from it,
\* no Sampler on it and no shared reference to the Device is live.
C10_ReleasedLast ==
    devReleased =>
        /\ devRefs = 0
        /\ \A k \in DevKinds : devHandles[k] = 0
        /\ samplers = 0


\* C11: at every teardown of a SwapChain the weak device reference resolved:
\* the engine still held its device reference, which it gives up only once
\* no SwapChain is left; no teardown panicked on an unresolved reference.
C11_WeakResolves ==
    /\ (teardown.cause # "none" => teardown.resolved)
    /\ panicAt # "swapchain_drop:429"
    /\ (swapchain.some => Upgrade(rc))
    /\ (~Upgrade(rc) => pc = "dropped")

C11_Witness ==
    /\ pc = "dropped" /\ teardown.cause = "drop" /\ teardown.resolved
    /\ ~Upgrade(rc) /\ built > 1

\* C12: while the engine lives the only strong reference to the device is the
\* engine's own, after every build and teardown; the SwapChain that exists
\* holds one weak reference and an absent one holds none.
C12_NoStrongFromSwapChain ==
    pc \in {"idle", "render", "panic"} =>
        /\ rc.strong = 1
        /\ rc.weak = (IF swapchain.some THEN 1 ELSE 0)

C12_Witness ==
    /\ pc = "render" /\ rebuilt /\ swapchain.some /\ swapchain.gen > 1
    /\ rc.strong = 1 /\ rc.weak = 1


\* C13: no driver error turns into a panic: a failed SwapChain rebuild or a
\* failed re-recording inside render, a failed GPU-state creation inside
\* scene_loaded and a failed image acquisition are returned or logged.
C13_ErrorsPropagate ==
    panicAt \notin {"render:129", "render:134", "scene_loaded:155", "render_object:301"}

\* C15: a scene_loaded call that returns creates GPU state only for the
\* entities that have raw render data and no GPU state yet, and leaves the
\* GPU state of every other entity as it was.
C15_OnlyMissingGpuState ==
    [][(pc = "idle" /\ op' = "scene_loaded" /\ pc' = "idle") =>
          /\ \A e \in Entities : scene[e].gpu.some => scene'[e].gpu = scene[e].gpu
          /\ Len(calls') = Cardinality({e \in Entities :
                                          scene[e].data /\ ~scene[e].gpu.some})]_vars

\* C18: while the engine's SwapChain is absent no SwapChain sub-object is
\* live in the driver: a build that failed destroyed what it had created.
C18_FailedBuildLeavesNothing ==
    ~swapchain.some =>
        \A k \in {"swapchain", "image_view", "render_pass", "pipeline_layout",
                  "pipeline", "framebuffer"} : live[k] = 0

\* C19: at every image acquisition the image-available semaphore is
\* unsignaled, and at every queue submit the render-finished semaphore is
\* unsignaled.
C19_OneSignalOneWait ==
    [][(op' = "render_object" /\ ro'.acquire # "none") =>
          /\ ~sem.image_available
          /\ (ro'.submit # "none" => ~sem.render_finished)]_vars

\* C20: create_command_buffers never runs while the SwapChain is absent, so
\* its unwrap of the SwapChain never panics.
C20_NoRecordWhileAbsent ==
    panicAt # "create_command_buffers:211"


\* The four steps of one submit-and-present, in the documented order.
FrameSteps == <<"acquire_next_image", "queue_submit", "queue_present", "device_wait_idle">>

InFrameSteps(c) == \E i \in DOMAIN FrameSteps : FrameSteps[i] = c

\* C17: the steps of a render_object call are a prefix of acquire, submit,
\* present, wait idle, all four when it returns Ok; the submit waits on
\* image-available, takes the command buffer of the acquired image index and
\* signals render-finished; the present waits on render-finished for the same
\* image index; a failed submit is followed by no present.
C17_SubmitPresentProtocol ==
    (op = "render_object" /\ ro.acquire # "none") =>
        LET steps == SelectSeq(calls, InFrameSteps)
        IN /\ Len(steps) >= 1
           /\ steps = SubSeq(FrameSteps, 1, Len(steps))
           /\ (ro.ret = "ok" => steps = FrameSteps)
           /\ ro.signal = "image_available"
           /\ (ro.submit # "none" =>
                 ro.submitted = [wait |-> ro.signal, cb |-> ro.image,
                                 signal |-> "render_finished"])
           /\ (ro.present # "none" =>
                 ro.presented = [wait |-> ro.submitted.signal, image |-> ro.image])
           /\ (ro.submit # "ok" =>
                 /\ ro.present = "none" /\ ro.presented = NoPresent
                 /\ \A i \in DOMAIN calls : calls[i] # "queue_present")

C17_Witness ==
    /\ op = "render_object" /\ ro.ret = "ok" /\ ro.image = 2
    /\ ro.submitted.cb = 2 /\ ro.presented.image = 2
    /\ calls = FrameSteps


Creation(d) ==
    LET type == CHOOSE t \in DOMAIN Wrappers : Wrappers[t].destroy = d.call
    IN [call |-> Wrappers[type].create, dev |-> d.dev, h |-> d.h]

\* C16: every destroy call a wrapper issues is for a handle that was created,
\* with the matching call on the same device; no handle is destroyed twice;
\* every created handle either still has its wrapper or has been destroyed,
\* never both; a failed creation adds no wrapper and no handle.
C16_OneMatchingDestroy ==
    /\ \A i \in DOMAIN destroys : Creation(destroys[i]) \in made
    /\ \A i, j \in DOMAIN destroys : destroys[i] = destroys[j] => i = j
    /\ \A m \in made :
          (\E o \in objs : Wrappers[o.type].create = m.call /\ o.dev = m.dev /\ o.h = m.h)
          # (\E i \in DOMAIN destroys : Creation(destroys[i]) = m)
    /\ Cardinality(made) = Cardinality(objs) + Len(destroys)
    /\ (objRet \in {"err", "panic"} => Cardinality(made) < objCount)

C16_Witness ==
    /\ objs = {} /\ Len(destroys) = 2
    /\ destroys[1].call = "destroy_pipeline_layout"
    /\ destroys[2].call = "destroy_sampler"
    /\ destroys[1].dev # destroys[2].dev


\* C21: at every queue submit the SwapChain is present, the acquired image
\* index is an index into the drawable's command-buffer set, and the command
\* buffer submitted was recorded against that SwapChain: its generation and
\* the framebuffer of that index.
C21_NoStaleSubmit ==
    [][(op' = "render_object" /\ ro'.submit # "none") =>
          LET cbs == scene[ro'.entity].gpu.cbs
              i == ro'.submitted.cb
          IN /\ swapchain.some
             /\ ro'.image \in DOMAIN cbs
             /\ i = ro'.image
             /\ cbs[i].gen = swapchain.gen
             /\ cbs[i].fb = swapchain.framebuffers[i]]_vars

C21_Witness ==
    /\ op = "render_object" /\ ro.submit = "ok" /\ ro.submitted.cb = 2
    /\ rebuilt /\ built > 1 /\ frames > 1
    /\ scene[ro.entity].gpu.cbs[2].gen = built


\* C22: a command buffer recorded with the one-time-submit flag is not
\* submitted again before it has been recorded again: no successful queue
\* submit takes a drawable's command buffer that was already submitted since
\* its recording.
C22_OneSubmitPerRecording ==
    [][(op' = "render_object" /\ ro'.submit = "ok" /\ "ONE_TIME_SUBMIT" \in BeginFlags
        /\ ro'.entity \in DOMAIN used) =>
          ro'.submitted.cb \notin used[ro'.entity]]_vars

====
